---- MODULE Spec2Model ----
(***************************************************************************)
(* Model of the demand-forecasting engine of xtock-client                  *)
(* (src/lib/forecasting.ts): advancedForecast and its four estimators,     *)
(* and of the handlers around it: the forecast message and its sending in  *)
(* parts (src/unnamed/part_009, src/unnamed/part_012), the demo request    *)
(* handlers that share table demo_whatsapp_request (part_007, part_009,    *)
(* part_011, part_012, src/app/api/demo/deny/route.ts) and the CSV upload  *)
(* (src/app/api/upload-csv/route.ts).                                      *)
(*                                                                         *)
(* Numbers.  JavaScript numbers are IEEE-754 doubles; here every           *)
(* fractional value is a fixed-point integer counting units of 1/Scale,    *)
(* each division rounding toward minus infinity.  Timestamps are           *)
(* milliseconds since 1970-01-01T00:00Z, as Date.getTime() gives them; a   *)
(* record's date string 'YYYY-MM-DD' is written as its day number.         *)
(* exponentialSmoothing is modelled a second time in exact binary64        *)
(* arithmetic (section binary64).                                          *)
(***************************************************************************)
EXTENDS Integers, Sequences, FiniteSets, TLC

\* ------------------------------------------------------------------ bounds

\* Longest record batch handed to advancedForecast.
MaxLen == 4

\* Longest series handed to an estimator called on its own.
MaxSeries == 3

\* Longest message, in characters, handed to sendWhatsAppMessage.
MaxMessage == 5000

\* Item identifiers that are not names of members of Object.prototype.
Items == {"Burger", "Soup"}

\* Item identifiers that name a member every object literal inherits.
ObjectPrototypeNames == {"constructor"}

\* Day numbers of the record dates: 1970-01-01 (a Thursday), 1970-01-02.
Days == {0, 1}

\* Record quantities (non-negative integers).
Quantities == {0, 40}

\* Fixed-point resolution: a value v stands for v / Scale.
Scale == 100 * 100

\* ------------------------------------------------------------------ numbers

MsPerHour == 1000 * 60 * 60

\* (1000 * 60 * 60 * 24) of advancedForecast and getWeekOfYear
MsPerDay == 1000 * 60 * 60 * 24

\* The value advancedForecast gets when the caller passes no targetDate.
NoDate == -1

\* The number NaN (what 0/0 gives); no other value of the model equals it.
NaN == -(2^30)

\* Math.max(a, b): NaN if either argument is NaN.
Max(a, b) == IF a = NaN \/ b = NaN THEN NaN ELSE IF a >= b THEN a ELSE b

\* floor(a * Scale / b) for b > 0, by long division so that no product
\* leaves the 32-bit range.
FixDiv(a, b) ==
  LET q0 == a \div b
      r0 == a % b
      q1 == (r0 * 100) \div b
      r1 == (r0 * 100) % b
      q2 == (r1 * 100) \div b
  IN  q0 * Scale + q1 * 100 + q2

RECURSIVE ExpSeries(_, _, _)
\* Sum of the Taylor terms of e^x from `term` (the k-th term) on; x and the
\* terms in units of 1/Scale, each term rounded to the nearest unit.
ExpSeries(x, term, k) ==
  IF term = 0 THEN 0
  ELSE LET d == Scale * (k + 1)
       IN  term + ExpSeries(x, (2 * term * x + d) \div (2 * d), k + 1)

\* Math.exp(x) for 0 <= x, x and the result in units of 1/Scale.
MathExp(x) == ExpSeries(x, Scale, 0)

\* Math.round(v) for v in units of 1/Scale: the nearest integer, a tie going
\* toward +infinity; NaN stays NaN.
MathRound(v) == IF v = NaN THEN NaN ELSE (2 * v + Scale) \div (2 * Scale)

\* The product a * b of two values in units of 1/Scale, rounded down; the
\* split of b keeps every intermediate product in the 32-bit range.
FixMul(a, b) == (a * (b \div 100) + (a * (b % 100)) \div 100) \div 100

RECURSIVE SeqSum(_)
SeqSum(s) == IF s = << >> THEN 0 ELSE Head(s) + SeqSum(Tail(s))

\* ------------------------------------------------------------------ dates

\* new Date(record.date).getTime() for the date string of day number d.
NewDate(d) == d * MsPerDay

\* A weekday that moves with the hour of the day.
GetDayOfHour(t) == ((t \div MsPerHour) + 4) % 7

\* Date.prototype.getDay(): 0 = Sunday .. 6 = Saturday.
GetDay(t) == ((t \div MsPerDay) + 4) % 7

\* getTomorrowDate(): the clock reads `now`; one day later, at midnight.
GetTomorrowDate(now) == ((now \div MsPerDay) + 1) * MsPerDay

\* getWeekOfYear(date), for a date of the year 1970 (firstDayOfYear is
\* timestamp 0, a Thursday): ceil((pastDaysOfYear + 4 + 1) / 7).
GetWeekOfYear(t) ==
  LET num == t + (GetDay(0) + 1) * MsPerDay
      den == 7 * MsPerDay
  IN  (num + den - 1) \div den

\* ------------------------------------------------------------------ estimators
\* A series is a sequence of TimeSeriesData records
\* [date, quantity, dayOfWeek, weekOfYear, daysSinceStart]; index i of the
\* code is position i + 1 here.  Results are in units of 1/Scale.

\* weightedMovingAverage(timeSeries, recentWeight)
WeightedMovingAverage(timeSeries, recentWeight) ==
  IF Len(timeSeries) = 0 THEN 0
  ELSE
    LET n == Len(timeSeries)
        weight == [i \in 1..n |->
                     MathExp(FixMul(FixDiv(i - 1, n), recentWeight) * 3)]
        weightedSum ==
          SeqSum([i \in 1..n |-> timeSeries[i].quantity * weight[i]])
        totalWeight == SeqSum(weight)
    IN  IF totalWeight > 0 THEN FixDiv(weightedSum, totalWeight) ELSE 0

RECURSIVE SmoothSwapped(_, _, _, _)
\* The loop of exponentialSmoothing with alpha and 1 - alpha exchanged.
SmoothSwapped(timeSeries, alpha, smoothed, i) ==
  IF i > Len(timeSeries) THEN smoothed
  ELSE SmoothSwapped(timeSeries, alpha,
                     FixMul(Scale - alpha, timeSeries[i].quantity * Scale)
                       + FixMul(alpha, smoothed),
                     i + 1)

RECURSIVE Smooth(_, _, _, _)
\* The loop of exponentialSmoothing from index i on.
Smooth(timeSeries, alpha, smoothed, i) ==
  IF i > Len(timeSeries) THEN smoothed
  ELSE Smooth(timeSeries, alpha,
              FixMul(alpha, timeSeries[i].quantity * Scale)
                + FixMul(Scale - alpha, smoothed),
              i + 1)

\* exponentialSmoothing starting its loop from 0 instead of the first
\* quantity.
ExponentialSmoothingFromZero(timeSeries, alpha) ==
  IF Len(timeSeries) = 0 THEN 0
  ELSE Smooth(timeSeries, alpha, 0, 1)

\* exponentialSmoothing(timeSeries, alpha)
ExponentialSmoothing(timeSeries, alpha) ==
  IF Len(timeSeries) = 0 THEN 0
  ELSE Smooth(timeSeries, alpha, timeSeries[1].quantity * Scale, 2)

\* dayOfWeekPattern with no fallback: 0 when no point has the weekday.
DayOfWeekPatternNoFallback(timeSeries, targetDayOfWeek) ==
  LET sameDayData ==
        SelectSeq(timeSeries, LAMBDA point : point.dayOfWeek = targetDayOfWeek)
      m == Len(sameDayData)
  IN  IF m = 0 THEN 0
      ELSE LET weight == [i \in 1..m |-> MathExp(FixDiv(i - 1, m) * 2)]
               weightedSum ==
                 SeqSum([i \in 1..m |-> sameDayData[i].quantity * weight[i]])
           IN  FixDiv(weightedSum, SeqSum(weight))

\* dayOfWeekPattern(timeSeries, targetDayOfWeek)
DayOfWeekPattern(timeSeries, targetDayOfWeek) ==
  LET sameDayData ==
        SelectSeq(timeSeries, LAMBDA point : point.dayOfWeek = targetDayOfWeek)
      m == Len(sameDayData)
  IN  IF m = 0
      THEN LET sum == SeqSum([i \in 1..Len(timeSeries) |->
                                timeSeries[i].quantity])
           IN  IF Len(timeSeries) > 0 THEN FixDiv(sum, Len(timeSeries)) ELSE 0
      ELSE LET weight == [i \in 1..m |-> MathExp(FixDiv(i - 1, m) * 2)]
               weightedSum ==
                 SeqSum([i \in 1..m |-> sameDayData[i].quantity * weight[i]])
               totalWeight == SeqSum(weight)
           IN  IF totalWeight > 0 THEN FixDiv(weightedSum, totalWeight) ELSE 0

\* linearTrendForecast without the denominator test: every offset equal, it
\* evaluates 0 / 0.
LinearTrendNoGuard(timeSeries) ==
  IF Len(timeSeries) < 2
  THEN IF Len(timeSeries) > 0 THEN timeSeries[1].quantity * Scale ELSE 0
  ELSE
    LET n == Len(timeSeries)
        sumX == SeqSum([i \in 1..n |-> timeSeries[i].daysSinceStart])
        sumY == SeqSum([i \in 1..n |-> timeSeries[i].quantity])
        sumXY == SeqSum([i \in 1..n |->
                   timeSeries[i].daysSinceStart * timeSeries[i].quantity])
        sumX2 == SeqSum([i \in 1..n |->
                   timeSeries[i].daysSinceStart * timeSeries[i].daysSinceStart])
        denominator == n * sumX2 - sumX * sumX
    IN  IF denominator = 0 THEN NaN
        ELSE LET m == FixDiv(n * sumXY - sumX * sumY, denominator)
                 b == (sumY * Scale - m * sumX) \div n
             IN  m * (timeSeries[n].daysSinceStart + 1) + b

\* linearTrendForecast returning 0 for every series shorter than two points:
\* the single-point branch lost.
LinearTrendNoSinglePoint(timeSeries) ==
  IF Len(timeSeries) < 2 THEN 0
  ELSE
    LET n == Len(timeSeries)
        sumX == SeqSum([i \in 1..n |-> timeSeries[i].daysSinceStart])
        sumY == SeqSum([i \in 1..n |-> timeSeries[i].quantity])
        sumXY == SeqSum([i \in 1..n |->
                   timeSeries[i].daysSinceStart * timeSeries[i].quantity])
        sumX2 == SeqSum([i \in 1..n |->
                   timeSeries[i].daysSinceStart * timeSeries[i].daysSinceStart])
        denominator == n * sumX2 - sumX * sumX
    IN  IF denominator = 0 THEN FixDiv(sumY, n)
        ELSE LET m == FixDiv(n * sumXY - sumX * sumY, denominator)
                 b == (sumY * Scale - m * sumX) \div n
             IN  m * (timeSeries[n].daysSinceStart + 1) + b

\* linearTrendForecast returning 0 where the denominator is 0.
LinearTrendFlatZero(timeSeries) ==
  IF Len(timeSeries) < 2
  THEN IF Len(timeSeries) > 0 THEN timeSeries[1].quantity * Scale ELSE 0
  ELSE
    LET n == Len(timeSeries)
        sumX == SeqSum([i \in 1..n |-> timeSeries[i].daysSinceStart])
        sumY == SeqSum([i \in 1..n |-> timeSeries[i].quantity])
        sumXY == SeqSum([i \in 1..n |->
                   timeSeries[i].daysSinceStart * timeSeries[i].quantity])
        sumX2 == SeqSum([i \in 1..n |->
                   timeSeries[i].daysSinceStart * timeSeries[i].daysSinceStart])
        denominator == n * sumX2 - sumX * sumX
    IN  IF denominator = 0 THEN 0
        ELSE LET m == FixDiv(n * sumXY - sumX * sumY, denominator)
                 b == (sumY * Scale - m * sumX) \div n
             IN  m * (timeSeries[n].daysSinceStart + 1) + b

\* linearTrendForecast extrapolating to the last observed offset itself.
LinearTrendAtLast(timeSeries) ==
  IF Len(timeSeries) < 2
  THEN IF Len(timeSeries) > 0 THEN timeSeries[1].quantity * Scale ELSE 0
  ELSE
    LET n == Len(timeSeries)
        sumX == SeqSum([i \in 1..n |-> timeSeries[i].daysSinceStart])
        sumY == SeqSum([i \in 1..n |-> timeSeries[i].quantity])
        sumXY == SeqSum([i \in 1..n |->
                   timeSeries[i].daysSinceStart * timeSeries[i].quantity])
        sumX2 == SeqSum([i \in 1..n |->
                   timeSeries[i].daysSinceStart * timeSeries[i].daysSinceStart])
        denominator == n * sumX2 - sumX * sumX
    IN  IF denominator = 0 THEN FixDiv(sumY, n)
        ELSE LET m == FixDiv(n * sumXY - sumX * sumY, denominator)
                 b == (sumY * Scale - m * sumX) \div n
             IN  m * timeSeries[n].daysSinceStart + b

\* linearTrendForecast(timeSeries)
LinearTrendForecast(timeSeries) ==
  IF Len(timeSeries) < 2
  THEN IF Len(timeSeries) > 0 THEN timeSeries[1].quantity * Scale ELSE 0
  ELSE
    LET n == Len(timeSeries)
        X(i) == timeSeries[i].daysSinceStart
        Y(i) == timeSeries[i].quantity
        sumX == SeqSum([i \in 1..n |-> X(i)])
        sumY == SeqSum([i \in 1..n |-> Y(i)])
        sumXY == SeqSum([i \in 1..n |-> X(i) * Y(i)])
        sumX2 == SeqSum([i \in 1..n |-> X(i) * X(i)])
        denominator == n * sumX2 - sumX * sumX
    IN  IF denominator = 0 THEN FixDiv(sumY, n)
        ELSE LET m == FixDiv(n * sumXY - sumX * sumY, denominator)
                 b == (sumY * Scale - m * sumX) \div n
                 nextDay == timeSeries[n].daysSinceStart + 1
             IN  m * nextDay + b

\* ------------------------------------------------------------------ binary64
\* exponentialSmoothing once more, in the arithmetic the code runs in: a
\* JavaScript number is an IEEE 754 binary64, every operation gives the
\* exact result rounded to 53 significant bits, ties to even.  A number
\* x >= 0 is the pair [n, e] with x = n * 2^e; the natural n is the
\* sequence of its digits to the base Limb, the lowest first, without
\* leading zeros (0 is the empty sequence).  Neither overflow nor
\* underflow is within reach of the quantities used.

LimbBits == 3 * 5

Limb == 2^LimbBits

\* The significant bits of a binary64.
Precision == 53

RECURSIVE Strip(_)
\* n without its leading zero digits.
Strip(n) ==
  IF n # << >> /\ n[Len(n)] = 0 THEN Strip(SubSeq(n, 1, Len(n) - 1)) ELSE n

\* The natural d < Limb.
Nat1(d) == IF d = 0 THEN << >> ELSE << d >>

RECURSIVE AddNat(_, _, _)
\* a + b + carry
AddNat(a, b, carry) ==
  IF a = << >> /\ b = << >> THEN Nat1(carry)
  ELSE LET t == (IF a = << >> THEN 0 ELSE Head(a))
                  + (IF b = << >> THEN 0 ELSE Head(b)) + carry
       IN  << t % Limb >>
             \o AddNat(IF a = << >> THEN << >> ELSE Tail(a),
                       IF b = << >> THEN << >> ELSE Tail(b),
                       t \div Limb)

RECURSIVE SubDigits(_, _, _)
SubDigits(a, b, borrow) ==
  IF a = << >> THEN << >>
  ELSE LET t == Head(a) - (IF b = << >> THEN 0 ELSE Head(b)) - borrow
       IN  << t % Limb >>
             \o SubDigits(Tail(a), IF b = << >> THEN << >> ELSE Tail(b),
                          IF t < 0 THEN 1 ELSE 0)

\* a - b for a >= b
SubNat(a, b) == Strip(SubDigits(a, b, 0))

RECURSIVE MulDigit(_, _, _)
\* a * d + carry for a digit d
MulDigit(a, d, carry) ==
  IF a = << >> THEN Nat1(carry)
  ELSE LET t == Head(a) * d + carry
       IN  << t % Limb >> \o MulDigit(Tail(a), d, t \div Limb)

RECURSIVE MulDigits(_, _)
MulDigits(a, b) ==
  IF b = << >> THEN << >>
  ELSE AddNat(MulDigit(a, Head(b), 0),
              IF Tail(b) = << >> THEN << >>
              ELSE << 0 >> \o MulDigits(a, Tail(b)),
              0)

\* a * b
MulNat(a, b) == Strip(MulDigits(a, b))

RECURSIVE CompareFrom(_, _, _)
CompareFrom(a, b, i) ==
  IF i = 0 THEN 0
  ELSE IF a[i] # b[i] THEN a[i] - b[i]
  ELSE CompareFrom(a, b, i - 1)

\* Negative, 0 or positive as a < b, a = b or a > b.
CompareNat(a, b) ==
  IF Len(a) # Len(b) THEN Len(a) - Len(b) ELSE CompareFrom(a, b, Len(a))

RECURSIVE BitsOf(_)
\* The number of binary digits of d.
BitsOf(d) == IF d = 0 THEN 0 ELSE 1 + BitsOf(d \div 2)

BitLength(n) ==
  IF n = << >> THEN 0 ELSE (Len(n) - 1) * LimbBits + BitsOf(n[Len(n)])

\* n * 2^k
ShiftLeft(n, k) ==
  IF n = << >> THEN << >>
  ELSE [i \in 1..(k \div LimbBits) |-> 0] \o MulDigit(n, 2^(k % LimbBits), 0)

RECURSIVE ShortDiv(_, _, _)
\* The digits of (rem * Limb^Len(n) + n) \div d for rem < d <= Limb.
ShortDiv(n, d, rem) ==
  IF n = << >> THEN << >>
  ELSE LET cur == rem * Limb + n[Len(n)]
       IN  ShortDiv(SubSeq(n, 1, Len(n) - 1), d, cur % d) \o << cur \div d >>

RECURSIVE ShortRem(_, _, _)
\* (rem * Limb^Len(n) + n) % d
ShortRem(n, d, rem) ==
  IF n = << >> THEN rem
  ELSE ShortRem(SubSeq(n, 1, Len(n) - 1), d, (rem * Limb + n[Len(n)]) % d)

\* n \div 2^k
ShiftRight(n, k) ==
  IF k \div LimbBits >= Len(n) THEN << >>
  ELSE Strip(ShortDiv(SubSeq(n, (k \div LimbBits) + 1, Len(n)),
                      2^(k % LimbBits), 0))

\* The binary64 nearest to n * 2^e, or to a number just above it when
\* sticky: the bits beyond the 53rd decide, a tie goes to the even
\* neighbour.
Round(n, e, sticky) ==
  IF BitLength(n) <= Precision THEN [n |-> n, e |-> e]
  ELSE LET s == BitLength(n) - Precision
           q == ShiftRight(n, s)
           rest == CompareNat(ShiftLeft(SubNat(n, ShiftLeft(q, s)), 1),
                              ShiftLeft(<< 1 >>, s))
           up == \/ rest > 0
                 \/ rest = 0 /\ (sticky \/ Head(q) % 2 = 1)
       IN  [n |-> IF up THEN AddNat(q, << >>, 1) ELSE q, e |-> e + s]

\* The binary64 of an integer 0 <= q < Limb.
FromInteger(q) == [n |-> Nat1(q), e |-> 0]

\* The binary64 a decimal literal num/den denotes, for small num and den.
FromDecimal(num, den) ==
  LET scaled == ShiftLeft(Nat1(num), 5 * LimbBits)
  IN  Round(Strip(ShortDiv(scaled, den, 0)), -(5 * LimbBits),
            ShortRem(scaled, den, 0) # 0)

\* The smaller of the exponents of x and y.
Aligned(x, y) == IF x.e <= y.e THEN x.e ELSE y.e

\* Negative, 0 or positive as x < y, x = y or x > y.
Compare(x, y) ==
  CompareNat(ShiftLeft(x.n, x.e - Aligned(x, y)),
             ShiftLeft(y.n, y.e - Aligned(x, y)))

\* x * y
Multiply(x, y) == Round(MulNat(x.n, y.n), x.e + y.e, FALSE)

\* x + y
Add(x, y) ==
  Round(AddNat(ShiftLeft(x.n, x.e - Aligned(x, y)),
               ShiftLeft(y.n, y.e - Aligned(x, y)), 0),
        Aligned(x, y), FALSE)

\* x - y for x >= y
Subtract(x, y) ==
  Round(SubNat(ShiftLeft(x.n, x.e - Aligned(x, y)),
               ShiftLeft(y.n, y.e - Aligned(x, y))),
        Aligned(x, y), FALSE)

\* alpha: number = 0.3
Alpha64 == FromDecimal(3, 10)

RECURSIVE Smooth64FromFirst(_, _, _, _)
\* The loop from index i on, the first quantity taken once more.
Smooth64FromFirst(timeSeries, alpha, smoothed, i) ==
  IF i > Len(timeSeries) THEN smoothed
  ELSE Smooth64FromFirst(
         timeSeries, alpha,
         Add(Add(Multiply(alpha, FromInteger(timeSeries[i].quantity)),
                 Multiply(Subtract(FromInteger(1), alpha), smoothed)),
             FromInteger(timeSeries[1].quantity)),
         i + 1)

RECURSIVE Smooth64(_, _, _, _)
\* The loop of exponentialSmoothing from index i on:
\* smoothed = alpha * timeSeries[i].quantity + (1 - alpha) * smoothed
Smooth64(timeSeries, alpha, smoothed, i) ==
  IF i > Len(timeSeries) THEN smoothed
  ELSE Smooth64(timeSeries, alpha,
                Add(Multiply(alpha, FromInteger(timeSeries[i].quantity)),
                    Multiply(Subtract(FromInteger(1), alpha), smoothed)),
                i + 1)

\* exponentialSmoothing(timeSeries, alpha) in binary64
ExponentialSmoothing64(timeSeries, alpha) ==
  IF Len(timeSeries) = 0 THEN FromInteger(0)
  ELSE Smooth64(timeSeries, alpha, FromInteger(timeSeries[1].quantity), 2)

\* ------------------------------------------------------------------ grouping

\* The item identifiers occurring in the batch.
ItemsOf(records) == {records[i].item : i \in 1..Len(records)}

\* The TimeSeriesData pushed for one record (lines 47-54).
NewPoint(record) ==
  LET date == NewDate(record.date)
  IN  [date |-> date,
       quantity |-> record.quantity,
       dayOfWeek |-> GetDay(date),
       weekOfYear |-> GetWeekOfYear(date),
       daysSinceStart |-> 0]

\* An object literal {} with no own property.
EmptyObject == [k \in {} |-> << >>]

\* A grouping turn in which every item holds the same array: the point goes
\* to the series of every key.
GroupRecordShared(acc, record) ==
  LET item == record.item
      keys == DOMAIN acc.data \cup {item}
      shared == IF acc.keys = << >> THEN << >> ELSE acc.data[acc.keys[1]]
  IN  IF acc.threw THEN acc
      ELSE IF item \notin DOMAIN acc.data /\ item \in ObjectPrototypeNames
      THEN [acc EXCEPT !.threw = TRUE]
      ELSE [keys |-> IF item \in DOMAIN acc.data THEN acc.keys
                     ELSE Append(acc.keys, item),
            data |-> [k \in keys |-> Append(shared, NewPoint(record))],
            threw |-> FALSE]

\* A grouping turn that filters zero-quantity records out.
GroupRecordSkipZero(acc, record) ==
  LET item == record.item
      own == item \in DOMAIN acc.data
  IN  IF acc.threw \/ record.quantity = 0 THEN acc
      ELSE IF own
      THEN [acc EXCEPT !.data[item] = Append(@, NewPoint(record))]
      ELSE IF item \in ObjectPrototypeNames
      THEN [acc EXCEPT !.threw = TRUE]
      ELSE [keys |-> Append(acc.keys, item),
            data |-> [k \in DOMAIN acc.data \cup {item} |->
                        IF k = item THEN << NewPoint(record) >>
                        ELSE acc.data[k]],
            threw |-> FALSE]

\* A grouping turn that puts the point in front of the item's series.
GroupRecordUnshift(acc, record) ==
  LET item == record.item
      own == item \in DOMAIN acc.data
  IN  IF acc.threw THEN acc
      ELSE IF own
      THEN [acc EXCEPT !.data[item] = << NewPoint(record) >> \o @]
      ELSE IF item \in ObjectPrototypeNames
      THEN [acc EXCEPT !.threw = TRUE]
      ELSE [keys |-> Append(acc.keys, item),
            data |-> [k \in DOMAIN acc.data \cup {item} |->
                        IF k = item THEN << NewPoint(record) >>
                        ELSE acc.data[k]],
            threw |-> FALSE]

\* A grouping turn that creates the item's series but pushes no point for a
\* zero-quantity record.
GroupRecordEmptyForZero(acc, record) ==
  LET item == record.item
      own == item \in DOMAIN acc.data
      pushed == IF record.quantity = 0 THEN << >> ELSE << NewPoint(record) >>
  IN  IF acc.threw THEN acc
      ELSE IF own
      THEN [acc EXCEPT !.data[item] = @ \o pushed]
      ELSE IF item \in ObjectPrototypeNames
      THEN [acc EXCEPT !.threw = TRUE]
      ELSE [keys |-> Append(acc.keys, item),
            data |-> [k \in DOMAIN acc.data \cup {item} |->
                        IF k = item THEN pushed ELSE acc.data[k]],
            threw |-> FALSE]

\* One turn of historicalData.forEach.  acc.keys lists the own properties of
\* itemData in insertion order, acc.data holds their arrays.  itemData[item]
\* finds an own property, else a member inherited from Object.prototype
\* (truthy, so no array is created, and without a push method: TypeError),
\* else undefined.
GroupRecord(acc, record) ==
  LET item == record.item
      own == item \in DOMAIN acc.data
  IN  IF acc.threw THEN acc
      ELSE IF own
      THEN [acc EXCEPT !.data[item] = Append(@, NewPoint(record))]
      ELSE IF item \in ObjectPrototypeNames
      THEN [acc EXCEPT !.threw = TRUE]
      ELSE [keys |-> Append(acc.keys, item),
            data |-> [k \in DOMAIN acc.data \cup {item} |->
                        IF k = item THEN << NewPoint(record) >>
                        ELSE acc.data[k]],
            threw |-> FALSE]

RECURSIVE GroupFrom(_, _, _)
GroupFrom(records, acc, i) ==
  IF i > Len(records) THEN acc
  ELSE GroupFrom(records, GroupRecord(acc, records[i]), i + 1)

\* The grouping loop of advancedForecast over the whole batch.
GroupByItem(records) ==
  GroupFrom(records, [keys |-> << >>, data |-> EmptyObject, threw |-> FALSE], 1)

\* ------------------------------------------------------------------ one item

\* The comparator (a, b) => a.date.getTime() - b.date.getTime().
CompareDate(a, b) == a.date - b.date

RECURSIVE InsertSorted(_, _)
\* point placed behind every element that does not compare greater.
InsertSorted(sorted, point) ==
  IF sorted = << >> THEN << point >>
  ELSE IF CompareDate(point, Head(sorted)) < 0 THEN << point >> \o sorted
  ELSE << Head(sorted) >> \o InsertSorted(Tail(sorted), point)

RECURSIVE SortFrom(_, _, _)
SortFrom(series, sorted, i) ==
  IF i > Len(series) THEN sorted
  ELSE SortFrom(series, InsertSorted(sorted, series[i]), i + 1)

\* The series left as it is: no sort.
SortSeriesUnsorted(series) == series

\* Array.prototype.sort with CompareDate: ascending, and stable (elements
\* that compare equal keep their order).
SortSeries(series) == SortFrom(series, << >>, 1)

\* Lines 70-76 without the "+ 1": offsets counted from 0.
WithDaysSinceStartZeroBased(timeSeries) ==
  LET startDate == timeSeries[1].date
  IN  [i \in 1..Len(timeSeries) |->
         [timeSeries[i] EXCEPT
            !.daysSinceStart = (timeSeries[i].date - startDate) \div MsPerDay]]

\* Lines 70-76: daysSinceStart of every point of a sorted series.
WithDaysSinceStart(timeSeries) ==
  LET startDate == timeSeries[1].date
  IN  [i \in 1..Len(timeSeries) |->
         [timeSeries[i] EXCEPT
            !.daysSinceStart =
              ((timeSeries[i].date - startDate) \div MsPerDay) + 1]]

\* recentWeight and alpha as advancedForecast passes them: 0.7 and 0.3.
RecentWeight == 7 * 1000
Alpha == 3 * 1000

\* const weights = [0.3, 0.3, 0.25, 0.15]
Weights == << 3000, 3000, 2500, 1500 >>

\* The methods array with its last two entries exchanged.
MethodsSwapped(timeSeries, targetDayOfWeek) ==
  << WeightedMovingAverage(timeSeries, RecentWeight),
     ExponentialSmoothing(timeSeries, Alpha),
     LinearTrendForecast(timeSeries),
     DayOfWeekPattern(timeSeries, targetDayOfWeek) >>

\* const methods = [...] (lines 79-84)
Methods(timeSeries, targetDayOfWeek) ==
  << WeightedMovingAverage(timeSeries, RecentWeight),
     ExponentialSmoothing(timeSeries, Alpha),
     DayOfWeekPattern(timeSeries, targetDayOfWeek),
     LinearTrendForecast(timeSeries) >>

\* Lines 88-91 with every weight taken as 1: the plain sum of the methods.
WeightedSumUnweighted(methods) ==
  IF \E idx \in 1..Len(methods) : methods[idx] = NaN THEN NaN
  ELSE SeqSum(methods)

\* Lines 88-91: forecast += value * weights[idx]; NaN once a value is NaN.
WeightedSum(methods) ==
  IF \E idx \in 1..Len(methods) : methods[idx] = NaN THEN NaN
  ELSE SeqSum([idx \in 1..Len(methods) |->
                 FixMul(methods[idx], Weights[idx])])

\* Line 93 without the clamp: Math.round(forecast) alone.
EnsembleNoClamp(methods) == MathRound(WeightedSum(methods))

\* Line 93: Math.max(0, Math.round(forecast)).
Ensemble(methods) ==
  LET forecast == WeightedSum(methods)
  IN  Max(0, MathRound(forecast))

\* Estimators that write to their argument: every daysSinceStart reset to 0.
EstimatorsResetOffsets(series) ==
  [i \in 1..Len(series) |-> [series[i] EXCEPT !.daysSinceStart = 0]]

\* The array an estimator was given, after the estimator returned: none of
\* the four assigns an element or a field of it (forEach, a for loop and
\* reduce only read; filter builds another array).
EstimatorsLeave(series) == series

\* The series of one item as the estimators get it (lines 61-76).
Normalize(series) == WithDaysSinceStart(SortSeries(series))

\* The body of Object.keys(itemData).forEach for one item.
ItemForecast(series, targetDayOfWeek) ==
  IF Len(series) = 0 THEN 0
  ELSE Ensemble(Methods(Normalize(series), targetDayOfWeek))

\* ------------------------------------------------------------------ the call

VARIABLES
  historicalData,   \* argument: the record batch
  targetDate,       \* argument: a timestamp, or NoDate when omitted
  pc,               \* "start", "forecast", "done" (returned), "threw"
  target,           \* const target
  targetDayOfWeek,  \* const targetDayOfWeek
  itemKeys,         \* Object.keys(itemData): own keys in insertion order
  itemData,         \* const itemData: own key -> series
  predictions,      \* const predictions: own key -> number
  forecasts,        \* rows of table forecasts a delivery handler has read
  message,          \* item lines of the forecast message a handler built
  timeSeries,       \* argument of an estimator called on its own
  called,           \* the estimator called on its own, or "none"
  returned,         \* what that estimator returned
  send,             \* the locals of one sendWhatsAppMessage call
  requests,         \* table demo_whatsapp_request: the status of each row
  handlers,         \* the locals of each demo request handler under way
  outbox,           \* the WhatsApp messages the demo handlers have sent
  env,              \* process.env: are the Twilio settings there
  sales_data,       \* table sales_data: the rows of one location
  uploadResponse,   \* what the last upload-csv request answered
  binary64          \* what exponentialSmoothing returned, as the binary64

vars == << historicalData, targetDate, pc, target, targetDayOfWeek,
           itemKeys, itemData, predictions, forecasts, message,
           timeSeries, called, returned, send,
           requests, handlers, outbox, env, sales_data, uploadResponse,
           binary64 >>

\* The variables of the forecast and of the delivery handlers.
forecastVars == << historicalData, targetDate, pc, target, targetDayOfWeek,
                   itemKeys, itemData, predictions, forecasts, message,
                   timeSeries, called, returned, binary64 >>

\* The variables of the demo request handlers.
demoVars == << requests, handlers, outbox, env >>

\* The variables of the upload-csv handler.
uploadVars == << sales_data, uploadResponse >>

\* The variables of the request handlers outside the forecast.
handlerVars == << send, demoVars, uploadVars >>

\* No demo request exists and no handler runs.
IdleDemo ==
  /\ requests = << >>
  /\ handlers = << >>
  /\ outbox = {}
  /\ env = [twilio |-> FALSE]

\* No upload has been made.
IdleUpload ==
  /\ sales_data = << >>
  /\ uploadResponse = [status |-> 0]

\* No sendWhatsAppMessage call is under way.
IdleSend == send = [pc |-> "idle"]

\* The variables of an estimator called on its own.
unitVars == << timeSeries, called, returned, binary64 >>

\* What the clock may read when getTomorrowDate runs.
Clock == {1 * MsPerDay + 13 * MsPerHour, 6 * MsPerDay + 2 * MsPerHour}

\* Explicit target dates: Friday 1970-01-09, 05:00.
TargetDates == {8 * MsPerDay + 5 * MsPerHour}

SalesRecords(items) == [date : Days, item : items, quantity : Quantities]

Batches(items) == UNION {[1..n -> SalesRecords(items)] : n \in 0..MaxLen}

InitLocals ==
  /\ pc = "start"
  /\ target = NoDate
  /\ targetDayOfWeek = NoDate
  /\ itemKeys = << >>
  /\ itemData = EmptyObject
  /\ predictions = EmptyObject
  /\ message = << >>
  /\ timeSeries = << >>
  /\ called = "none"
  /\ returned = 0
  /\ binary64 = FromInteger(0)
  /\ IdleSend
  /\ IdleDemo
  /\ IdleUpload

Init ==
  /\ historicalData \in Batches(Items)
  /\ targetDate \in TargetDates \cup {NoDate}
  /\ forecasts = << >>
  /\ InitLocals

\* The target taken from the clock even when a date is passed.
ResolveTargetFromClock(date, now) == GetTomorrowDate(now)

\* The batches of the second specification: an item identifier may also be
\* the name of an inherited member.
InitAnyItem ==
  /\ historicalData \in Batches(Items \cup ObjectPrototypeNames)
  /\ targetDate \in TargetDates \cup {NoDate}
  /\ forecasts = << >>
  /\ InitLocals

\* Scenario A: the quantities of item "Burger" on seven consecutive days.
ScenarioQuantities == << 10, 12, 11, 13, 12, 14, 13 >>

\* The first days of the scenario's week.
ScenarioStarts == 0..6

\* The scenario's batch in date order, its first record on day `start`.
ScenarioA(start) ==
  [i \in 1..Len(ScenarioQuantities) |->
     [date |-> start + i - 1, item |-> "Burger",
      quantity |-> ScenarioQuantities[i]]]

\* The batch with its first r records moved behind the others.
Rotated(records, r) ==
  [i \in 1..Len(records) |-> records[((i - 1 + r) % Len(records)) + 1]]

\* The calls of the third specification: the scenario's batch in any
\* rotation, the target date the 8th day (at midnight or 05:00) or omitted.
InitScenarioA ==
  /\ \E start \in ScenarioStarts :
       /\ historicalData \in
            {Rotated(ScenarioA(start), r) : r \in 0..(Len(ScenarioQuantities) - 1)}
       /\ targetDate \in {NoDate, NewDate(start + 7),
                          NewDate(start + 7) + 5 * MsPerHour}
  /\ forecasts = << >>
  /\ InitLocals

\* const target = targetDate || getTomorrowDate()
ResolveTarget(date, now) ==
  IF date # NoDate THEN date ELSE GetTomorrowDate(now)

\* Lines 36-57: the target is resolved and the batch grouped.
Call ==
  /\ pc = "start"
  /\ \E now \in Clock : target' = ResolveTarget(targetDate, now)
  /\ targetDayOfWeek' = GetDay(target')
  /\ LET grouped == GroupByItem(historicalData)
     IN  IF grouped.threw
         THEN /\ pc' = "threw"
              /\ UNCHANGED << itemKeys, itemData >>
         ELSE /\ pc' = "forecast"
              /\ itemKeys' = grouped.keys
              /\ itemData' = grouped.data
  /\ UNCHANGED << handlerVars, historicalData, targetDate, predictions, forecasts,
                  message, unitVars >>

\* Lines 60-94 for the next item of Object.keys(itemData): the series is
\* sorted and annotated in place and the prediction stored.
ForecastItem ==
  /\ pc = "forecast"
  /\ Cardinality(DOMAIN predictions) < Len(itemKeys)
  /\ LET item == itemKeys[Cardinality(DOMAIN predictions) + 1]
     IN  /\ itemData' =
              [itemData EXCEPT ![item] = EstimatorsLeave(Normalize(@))]
         /\ predictions' =
              [k \in DOMAIN predictions \cup {item} |->
                 IF k = item THEN ItemForecast(itemData[item], targetDayOfWeek)
                 ELSE predictions[k]]
  /\ UNCHANGED << handlerVars, historicalData, targetDate, pc, target, targetDayOfWeek,
                  itemKeys, forecasts, message, unitVars >>

\* Line 96: return predictions.
Return ==
  /\ pc = "forecast"
  /\ Cardinality(DOMAIN predictions) = Len(itemKeys)
  /\ pc' = "done"
  /\ UNCHANGED << handlerVars, historicalData, targetDate, target, targetDayOfWeek,
                  itemKeys, itemData, predictions, forecasts, message,
                  unitVars >>

Next == Call \/ ForecastItem \/ Return

Spec == Init /\ [][Next]_vars

SpecAnyItem == InitAnyItem /\ [][Next]_vars

SpecScenarioA == InitScenarioA /\ [][Next]_vars

\* advancedForecast as a function of its arguments, the target date given.
AdvancedForecast(records, date) ==
  LET grouped == GroupByItem(records)
  IN  [threw |-> grouped.threw,
       predictions |->
         IF grouped.threw THEN EmptyObject
         ELSE [k \in DOMAIN grouped.data |->
                 ItemForecast(grouped.data[k], GetDay(date))]]

\* ------------------------------------------------------------------ delivery
\* The handlers that build a forecast message: handleDemoApproval
\* (src/unnamed/part_009), handleApproval and handleForecastApproval
\* (src/unnamed/part_012).  A message is kept as the sequence of its item
\* lines [item, qty], which the handler prints as "item: qty units".

\* A predicted_quantity column holding SQL NULL.
Null == -2

\* The third item of the delivery batches.
DeliveryItems == Items \cup {"Fries"}

\* The quantities a row of table forecasts may hold.
PredictedQuantities == {Null, 0, 5, 9}

\* Object.entries(forecast): the own keys in insertion order, each with its
\* value.
Entries(keys, forecast) ==
  [i \in 1..Len(keys) |-> [item |-> keys[i], qty |-> forecast[keys[i]]]]

\* The comparator with its operands exchanged: lowest first.
CompareEntriesAscending(a, b) == a.qty - b.qty

\* The comparator (a, b) => b[1] - a[1].
CompareEntries(a, b) == b.qty - a.qty

RECURSIVE InsertEntry(_, _)
\* entry placed behind every element that does not compare greater.
InsertEntry(sorted, entry) ==
  IF sorted = << >> THEN << entry >>
  ELSE IF CompareEntries(entry, Head(sorted)) < 0 THEN << entry >> \o sorted
  ELSE << Head(sorted) >> \o InsertEntry(Tail(sorted), entry)

RECURSIVE SortEntriesFrom(_, _, _)
SortEntriesFrom(entries, sorted, i) ==
  IF i > Len(entries) THEN sorted
  ELSE SortEntriesFrom(entries, InsertEntry(sorted, entries[i]), i + 1)

\* Array.prototype.sort with CompareEntries: stable.
SortEntries(entries) == SortEntriesFrom(entries, << >>, 1)

\* The item lines of handleDemoApproval and handleApproval:
\* Object.entries(forecast).sort(...).forEach(...).
EntryLines(keys, forecast) == SortEntries(Entries(keys, forecast))

\* The number the operator `-` takes for a column value: null counts as 0.
ToNumber(v) == IF v = Null THEN 0 ELSE v

\* The comparator (a, b) => b.predicted_quantity - a.predicted_quantity.
ComparePredicted(a, b) ==
  ToNumber(b.predicted_quantity) - ToNumber(a.predicted_quantity)

RECURSIVE InsertRow(_, _)
\* row placed behind every element that does not compare greater.
InsertRow(sorted, row) ==
  IF sorted = << >> THEN << row >>
  ELSE IF ComparePredicted(row, Head(sorted)) < 0 THEN << row >> \o sorted
  ELSE << Head(sorted) >> \o InsertRow(Tail(sorted), row)

RECURSIVE SortRowsFrom(_, _, _)
SortRowsFrom(rows, sorted, i) ==
  IF i > Len(rows) THEN sorted
  ELSE SortRowsFrom(rows, InsertRow(sorted, rows[i]), i + 1)

\* Array.prototype.sort with ComparePredicted: stable.
SortRows(rows) == SortRowsFrom(rows, << >>, 1)

\* The item lines of handleForecastApproval over the sorted rows: a row
\* whose quantity is null or 0 prints no line.
RowLines(sortedForecasts) ==
  LET printed == SelectSeq(sortedForecasts,
                   LAMBDA forecast : ~(forecast.predicted_quantity = Null
                                       \/ forecast.predicted_quantity = 0))
  IN  [i \in 1..Len(printed) |->
         [item |-> printed[i].item, qty |-> printed[i].predicted_quantity]]

\* quantities.slice(-7)
LastSeven(quantities) ==
  IF Len(quantities) <= 7 THEN quantities
  ELSE SubSeq(quantities, Len(quantities) - 6, Len(quantities))

\* predictTomorrowSales of part_012: per item, in order of first occurrence,
\* the rounded mean of its last seven quantities in batch order.
PredictTomorrowSales(records) ==
  [item \in ItemsOf(records) |->
     LET own == SelectSeq(records, LAMBDA record : record.item = item)
         quantities == [i \in 1..Len(own) |-> own[i].quantity]
         last7 == LastSeven(quantities)
         avg == IF Len(last7) > 0 THEN FixDiv(SeqSum(last7), Len(last7)) ELSE 0
     IN  MathRound(avg)]

\* The records a handler reads from sales_demo: ordered by date ascending.
DeliveryBatches ==
  {batch \in Batches(DeliveryItems) :
     \A i \in 1..(Len(batch) - 1) : batch[i].date <= batch[i + 1].date}

\* The rows a handler reads from table forecasts.
ForecastRows ==
  UNION {[1..n -> [item : Items, predicted_quantity : PredictedQuantities]] :
           n \in 0..(MaxLen - 1)}

\* One request to a delivery handler: either the sales records of a demo
\* restaurant or the stored forecast rows of a location have been read.
InitDelivery ==
  /\ \/ historicalData \in DeliveryBatches /\ forecasts = << >>
     \/ historicalData = << >> /\ forecasts \in ForecastRows
  /\ targetDate = NoDate
  /\ InitLocals

\* handleDemoApproval, part_009 lines 130-137: no sales data ends the
\* request; else advancedForecast(salesData) runs.
DemoForecast ==
  /\ Len(historicalData) > 0
  /\ (Call \/ ForecastItem \/ Return)

\* handleDemoApproval, part_009 lines 149-156: the message of the returned
\* mapping.
FormatMessage ==
  /\ pc = "done"
  /\ message' = EntryLines(itemKeys, predictions)
  /\ pc' = "sent"
  /\ UNCHANGED << handlerVars, historicalData, targetDate, target, targetDayOfWeek,
                  itemKeys, itemData, predictions, forecasts, unitVars >>

\* handleApproval, part_012 lines 169-199: no sales data ends the request;
\* else predictTomorrowSales(salesData) and the message of its mapping.
HandleApproval ==
  /\ pc = "start"
  /\ Len(historicalData) > 0
  /\ itemKeys' = GroupByItem(historicalData).keys
  /\ predictions' = PredictTomorrowSales(historicalData)
  /\ message' = EntryLines(itemKeys', predictions')
  /\ pc' = "sent"
  /\ UNCHANGED << handlerVars, historicalData, targetDate, target, targetDayOfWeek,
                  itemData, forecasts, unitVars >>

\* handleForecastApproval, part_012 lines 335-356: no row skips the
\* location; else the rows are sorted in place and printed.
HandleForecastApproval ==
  /\ pc = "start"
  /\ Len(forecasts) > 0
  /\ forecasts' = SortRows(forecasts)
  /\ message' = RowLines(forecasts')
  /\ pc' = "sent"
  /\ UNCHANGED << handlerVars, historicalData, targetDate, target, targetDayOfWeek,
                  itemKeys, itemData, predictions, unitVars >>

NextDelivery ==
  DemoForecast \/ FormatMessage \/ HandleApproval \/ HandleForecastApproval

SpecDelivery == InitDelivery /\ [][NextDelivery]_vars

\* ------------------------------------------------------------------ estimators alone
\* Each estimator called on its own with any series of up to MaxSeries
\* points, the empty one included.

\* daysSinceStart and quantity of the points.
UnitOffsets == 1..4
UnitQuantities == {0, 3, 6}

\* Weekdays asked of dayOfWeekPattern: a Thursday (offset 1), a Monday (no
\* point).
UnitTargetDays == {4, 1}

\* A TimeSeriesData of offset x: its date is day x - 1.
UnitPoint(x, q) ==
  [date |-> NewDate(x - 1),
   quantity |-> q,
   dayOfWeek |-> GetDay(NewDate(x - 1)),
   weekOfYear |-> GetWeekOfYear(NewDate(x - 1)),
   daysSinceStart |-> x]

UnitPoints == {UnitPoint(x, q) : x \in UnitOffsets, q \in UnitQuantities}

UnitSeries == UNION {[1..n -> UnitPoints] : n \in 0..MaxSeries}

InitEstimators ==
  /\ timeSeries \in UnitSeries
  /\ called = "none"
  /\ returned = 0
  /\ binary64 = FromInteger(0)
  /\ pc = "unit"
  /\ historicalData = << >>
  /\ targetDate = NoDate
  /\ target = NoDate
  /\ targetDayOfWeek = NoDate
  /\ itemKeys = << >>
  /\ itemData = EmptyObject
  /\ predictions = EmptyObject
  /\ forecasts = << >>
  /\ message = << >>
  /\ IdleSend
  /\ IdleDemo
  /\ IdleUpload

UnitWeightedMovingAverage ==
  /\ pc = "unit" /\ called = "none"
  /\ called' = "weightedMovingAverage"
  /\ returned' = WeightedMovingAverage(timeSeries, RecentWeight)
  /\ UNCHANGED binary64
  /\ timeSeries' = EstimatorsLeave(timeSeries)
  /\ UNCHANGED << handlerVars, historicalData, targetDate, pc, target, targetDayOfWeek,
                  itemKeys, itemData, predictions, forecasts, message >>

UnitExponentialSmoothing ==
  /\ pc = "unit" /\ called = "none"
  /\ called' = "exponentialSmoothing"
  /\ returned' = ExponentialSmoothing(timeSeries, Alpha)
  /\ binary64' = ExponentialSmoothing64(timeSeries, Alpha64)
  /\ timeSeries' = EstimatorsLeave(timeSeries)
  /\ UNCHANGED << handlerVars, historicalData, targetDate, pc, target, targetDayOfWeek,
                  itemKeys, itemData, predictions, forecasts, message >>

UnitDayOfWeekPattern ==
  /\ pc = "unit" /\ called = "none"
  /\ called' = "dayOfWeekPattern"
  /\ \E day \in UnitTargetDays :
       /\ targetDayOfWeek' = day
       /\ returned' = DayOfWeekPattern(timeSeries, day)
  /\ UNCHANGED binary64
  /\ timeSeries' = EstimatorsLeave(timeSeries)
  /\ UNCHANGED << handlerVars, historicalData, targetDate, pc, target,
                  itemKeys, itemData, predictions, forecasts, message >>

UnitLinearTrendForecast ==
  /\ pc = "unit" /\ called = "none"
  /\ called' = "linearTrendForecast"
  /\ returned' = LinearTrendForecast(timeSeries)
  /\ UNCHANGED binary64
  /\ timeSeries' = EstimatorsLeave(timeSeries)
  /\ UNCHANGED << handlerVars, historicalData, targetDate, pc, target, targetDayOfWeek,
                  itemKeys, itemData, predictions, forecasts, message >>

NextEstimators ==
  \/ UnitWeightedMovingAverage
  \/ UnitExponentialSmoothing
  \/ UnitDayOfWeekPattern
  \/ UnitLinearTrendForecast

SpecEstimators == InitEstimators /\ [][NextEstimators]_vars

\* ------------------------------------------------------------------ target dates
\* advancedForecast called with target dates of several weekdays, times of
\* day and weeks, on batches of up to MaxSeries records.

\* Fridays 1970-01-09 05:00, 1970-01-16 23:00 and 1970-01-23 00:00;
\* Saturdays 1970-01-10 01:00 and 1970-01-03 12:00.
WideTargetDates ==
  {8 * MsPerDay + 5 * MsPerHour, 15 * MsPerDay + 23 * MsPerHour,
   22 * MsPerDay, 9 * MsPerDay + MsPerHour, 2 * MsPerDay + 12 * MsPerHour}

InitTargets ==
  /\ historicalData \in
       UNION {[1..n -> SalesRecords(Items)] : n \in 0..MaxSeries}
  /\ targetDate \in WideTargetDates \cup {NoDate}
  /\ forecasts = << >>
  /\ InitLocals

SpecTargets == InitTargets /\ [][Next]_vars

\* ------------------------------------------------------------------ sending
\* sendWhatsAppMessage (src/unnamed/part_012, lines 114-157; the same code
\* stands in handleDemoApproval, src/unnamed/part_009 lines 169-201).
\*
\* The message is a text of pairwise different characters, so that a loss,
\* a repetition or a reordering of characters shows; a string cut out of it
\* is kept as the slice [from, len]: its characters are those at the
\* positions from .. from + len - 1 of the message (positions count from 0).

\* No forecast call is under way.
ForecastIdle ==
  /\ historicalData = << >>
  /\ targetDate = NoDate
  /\ forecasts = << >>
  /\ pc = "idle"
  /\ target = NoDate
  /\ targetDayOfWeek = NoDate
  /\ itemKeys = << >>
  /\ itemData = EmptyObject
  /\ predictions = EmptyObject
  /\ message = << >>
  /\ timeSeries = << >>
  /\ called = "none"
  /\ returned = 0
  /\ binary64 = FromInteger(0)

\* const maxLength = 1600
MaxLength == 1600

\* The characters kept free for the header of a part: maxLength - 50.
HeaderReserve == 50

\* The message of n characters.
Text(n) == [from |-> 0, len |-> n]

\* s.substring(start, end) for 0 <= start <= end <= s.length.
Substring(s, start, end) == [from |-> s.from + start, len |-> end - start]

\* Math.min(a, b)
Min(a, b) == IF a <= b THEN a ELSE b

RECURSIVE Digits(_)
\* The number of characters of the decimal numeral of n >= 0.
Digits(n) == IF n < 10 THEN 1 ELSE 1 + Digits(n \div 10)

\* The length of `Part ${partNumber}/${totalParts}:\n`; a message sent
\* whole (partNumber 0) has no header.
HeaderLength(part) ==
  IF part.partNumber = 0 THEN 0
  ELSE 5 + Digits(part.partNumber) + 1 + Digits(part.totalParts) + 2

\* The length of the body handed to client.messages.create.
BodyLength(part) == HeaderLength(part) + part.chunk.len

\* A chunk as long as maxLength, no room kept for the header.
ChunkSizeFull(remainingMessage) == Min(MaxLength, remainingMessage.len)

\* const chunkSize = Math.min(maxLength - 50, remainingMessage.length)
ChunkSize(remainingMessage) ==
  Min(MaxLength - HeaderReserve, remainingMessage.len)

\* const totalParts = Math.ceil(message.length / maxLength)
TotalParts(length) == (length + MaxLength - 1) \div MaxLength

\* One call: the message and whether the three Twilio settings are set.
InitSend ==
  /\ \E n \in 0..MaxMessage, configured \in BOOLEAN :
       send = [pc |-> "start", configured |-> configured,
               message |-> Text(n), remainingMessage |-> Text(n),
               partNumber |-> 0, totalParts |-> 0,
               parts |-> << >>, created |-> << >>]
  /\ ForecastIdle
  /\ IdleDemo
  /\ IdleUpload

\* Lines 119-122: Twilio not configured, nothing is sent.
SendNotConfigured ==
  /\ send.pc = "start"
  /\ ~send.configured
  /\ send' = [send EXCEPT !.pc = "returned"]
  /\ UNCHANGED << forecastVars, demoVars, uploadVars >>

\* Lines 127-132: a message of at most maxLength characters goes out as it
\* is; client.messages.create resolves or rejects.
SendWhole ==
  /\ send.pc = "start"
  /\ send.configured
  /\ send.message.len <= MaxLength
  /\ \/ send' = [send EXCEPT
                   !.created = << [partNumber |-> 0, totalParts |-> 0,
                                   chunk |-> send.message] >>,
                   !.pc = "returned"]
     \/ send' = [send EXCEPT !.pc = "threw"]
  /\ UNCHANGED << forecastVars, demoVars, uploadVars >>

\* Lines 134-138: a longer message is split.
SplitStart ==
  /\ send.pc = "start"
  /\ send.configured
  /\ send.message.len > MaxLength
  /\ send' = [send EXCEPT !.pc = "splitting",
                          !.parts = << >>,
                          !.remainingMessage = send.message,
                          !.partNumber = 1,
                          !.totalParts = TotalParts(send.message.len)]
  /\ UNCHANGED << forecastVars, demoVars, uploadVars >>

\* Lines 140-147: one turn of the while loop.
SplitChunk ==
  /\ send.pc = "splitting"
  /\ send.remainingMessage.len > 0
  /\ LET chunkSize == ChunkSize(send.remainingMessage)
         chunk == Substring(send.remainingMessage, 0, chunkSize)
         partMessage == [partNumber |-> send.partNumber,
                         totalParts |-> send.totalParts,
                         chunk |-> chunk]
     IN  send' = [send EXCEPT
                    !.parts = Append(@, partMessage),
                    !.remainingMessage = Substring(@, chunkSize, @.len),
                    !.partNumber = @ + 1]
  /\ UNCHANGED << forecastVars, demoVars, uploadVars >>

\* Line 140: the while loop ends.
SplitDone ==
  /\ send.pc = "splitting"
  /\ ~(send.remainingMessage.len > 0)
  /\ send' = [send EXCEPT !.pc = "sending"]
  /\ UNCHANGED << forecastVars, demoVars, uploadVars >>

\* Lines 149-155: one turn of the for loop; client.messages.create resolves
\* or rejects.
SendPart ==
  /\ send.pc = "sending"
  /\ Len(send.created) < Len(send.parts)
  /\ \/ send' = [send EXCEPT
                   !.created = Append(@, send.parts[Len(send.created) + 1])]
     \/ send' = [send EXCEPT !.pc = "threw"]
  /\ UNCHANGED << forecastVars, demoVars, uploadVars >>

\* Line 149: the for loop ends and the function returns.
SendDone ==
  /\ send.pc = "sending"
  /\ Len(send.created) = Len(send.parts)
  /\ send' = [send EXCEPT !.pc = "returned"]
  /\ UNCHANGED << forecastVars, demoVars, uploadVars >>

NextSend ==
  \/ SendNotConfigured
  \/ SendWhole
  \/ SplitStart
  \/ SplitChunk
  \/ SplitDone
  \/ SendPart
  \/ SendDone

\* The call is one async function: the event loop resumes it after every
\* await until it returns or throws.
SpecSend == InitSend /\ [][NextSend]_vars /\ WF_vars(NextSend)

\* ------------------------------------------------------------------ demo requests
\* The handlers that read and write table demo_whatsapp_request for one
\* phone number: POST /api/demo-whatsapp (src/unnamed/part_007), the approve
\* route (handleDemoApproval, src/unnamed/part_009), the deny route
\* (handleDemoDenial, src/app/api/demo/deny/route.ts) and the two WhatsApp
\* webhooks (POST of src/unnamed/part_012 and of src/unnamed/part_011).
\* Requests are served concurrently: a handler runs up to its next await,
\* where any other handler may go on.

\* Rows table demo_whatsapp_request can hold.
MaxRequests == 2

\* Two handlers are under way together.
HandlerIds == {"first", "second"}

\* body.ButtonPayload?.toString() || ""
ButtonPayloads == {"", "demo-accept", "demo-cancel", "forecast-accept"}

\* body.Body?.toString() || "", lower-cased and trimmed; none of these
\* texts contains a keyword without being one.
MessageBodies == {"", "yes", "no", "maybe"}

\* const approvalKeywords (the accented "si" is left out)
ApprovalKeywords ==
  {"yes", "si", "approve", "aprobar", "ok", "okay", "accept", "aceptar"}

\* const denialKeywords
DenialKeywords ==
  {"no", "deny", "denegar", "cancel", "cancelar", "reject", "rechazar"}

IsApprovalMessage(messageBody) == messageBody \in ApprovalKeywords

IsDenialMessage(messageBody) == messageBody \in DenialKeywords

\* A handler that has not received its request.
IdleHandler ==
  [route |-> "", pc |-> "idle", phone |-> FALSE, buttonPayload |-> "",
   messageBody |-> "", demoRequest |-> 0, response |-> ""]

\* What a request can carry: the routes take the phone number from the
\* query, the webhooks take phone number, button and text from the form.
Received ==
  { [route |-> r, pc |-> "start", phone |-> p, buttonPayload |-> "",
     messageBody |-> "", demoRequest |-> 0, response |-> ""] :
      r \in {"approve", "deny"}, p \in BOOLEAN }
  \cup
  { [route |-> r, pc |-> "start", phone |-> TRUE, buttonPayload |-> b,
     messageBody |-> m, demoRequest |-> 0, response |-> ""] :
      r \in {"webhook", "webhook011"}, b \in ButtonPayloads,
      m \in MessageBodies }
  \cup
  { [route |-> r, pc |-> "start", phone |-> FALSE, buttonPayload |-> "",
     messageBody |-> "yes", demoRequest |-> 0, response |-> ""] :
      r \in {"webhook", "webhook011"} }

\* .eq("status", "pending").order("created_at", { ascending: false })
\* .limit(1): the id of the newest pending row, 0 when there is none.
PendingRequest ==
  LET pending == { i \in 1..Len(requests) : requests[i] = "pending" }
  IN  IF pending = {} THEN 0
      ELSE CHOOSE i \in pending : \A j \in pending : j <= i

\* .update({ status }).eq("id", demoRequest.id)
Update(id, status) == [requests EXCEPT ![id] = status]

\* return NextResponse.json(...)
Respond(h, response) ==
  handlers' = [handlers EXCEPT ![h].pc = "responded",
                               ![h].response = response]

\* The handler goes on to its next await.
Goto(h, label) == handlers' = [handlers EXCEPT ![h].pc = label]

\* A message of one kind sent by handler h about its request.
Sent(h, kind) ==
  [by |-> h, request |-> handlers[h].demoRequest, kind |-> kind]

\* What the demo handlers leave alone.
idleVars == << forecastVars, send, uploadVars >>

InitDemo ==
  /\ requests = << >>
  /\ handlers = [h \in HandlerIds |-> IdleHandler]
  /\ outbox = {}
  /\ env \in [twilio : BOOLEAN]
  /\ ForecastIdle
  /\ IdleSend
  /\ IdleUpload

\* POST /api/demo-whatsapp, part_007 lines 41-50: a pending row is inserted.
RequestDemo ==
  /\ Len(requests) < MaxRequests
  /\ requests' = Append(requests, "pending")
  /\ UNCHANGED << handlers, outbox, env, idleVars >>

\* A request reaches a handler.
Receive(h) ==
  /\ handlers[h].pc = "idle"
  /\ \E request \in Received : handlers' = [handlers EXCEPT ![h] = request]
  /\ UNCHANGED << requests, outbox, env, idleVars >>

\* Lines 60-109 of handleDemoApproval and lines 58-107 of handleDemoDenial:
\* the phone number, then the pending request of that number.
FindRequest(h, next) ==
  /\ handlers[h].pc = "start"
  /\ \/ /\ ~handlers[h].phone
        /\ Respond(h, "400 Phone number not provided")
     \/ /\ handlers[h].phone
        /\ \/ Respond(h, "500 Database error")
           \/ /\ PendingRequest = 0
              /\ Respond(h, "404 No pending demo request found")
           \/ /\ PendingRequest # 0
              /\ handlers' = [handlers EXCEPT
                                ![h].demoRequest = PendingRequest,
                                ![h].pc = next]
  /\ UNCHANGED << requests, outbox, env, idleVars >>

\* handleDemoApproval, part_009 lines 60-109.
ApproveFind(h) ==
  /\ handlers[h].route = "approve"
  /\ FindRequest(h, "sales")

\* handleDemoApproval, lines 113-158: the sales query and the forecast
\* (which throws for some batches, see ItemForecast).
ApproveSales(h) ==
  /\ handlers[h].route = "approve"
  /\ handlers[h].pc = "sales"
  /\ \/ Respond(h, "500 Database error")
     \/ Respond(h, "No sales data available for this restaurant")
     \/ Respond(h, "500 Internal server error")
     \/ Goto(h, "send")
  /\ UNCHANGED << requests, outbox, env, idleVars >>

\* The send block that marks the request finished before answering that
\* the send failed.
ApproveSendFinishes(h) ==
  /\ handlers[h].route = "approve"
  /\ handlers[h].pc = "send"
  /\ IF env.twilio
     THEN \/ /\ outbox' = outbox \cup {Sent(h, "forecast")}
             /\ Goto(h, "update")
             /\ UNCHANGED requests
          \/ /\ outbox' \in {outbox, outbox \cup {Sent(h, "parts")}}
             /\ Respond(h, "500 Failed to send WhatsApp")
             /\ requests' = Update(handlers[h].demoRequest, "finished")
     ELSE /\ Goto(h, "update")
          /\ UNCHANGED << requests, outbox >>
  /\ UNCHANGED << env, idleVars >>

\* handleDemoApproval, lines 160-216: with Twilio configured the message
\* is sent, whole or in parts; a create call that rejects ends the handler
\* (some parts of a split message may be out by then).
ApproveSend(h) ==
  /\ handlers[h].route = "approve"
  /\ handlers[h].pc = "send"
  /\ IF env.twilio
     THEN \/ /\ outbox' = outbox \cup {Sent(h, "forecast")}
             /\ Goto(h, "update")
          \/ /\ outbox' \in {outbox, outbox \cup {Sent(h, "parts")}}
             /\ Respond(h, "500 Failed to send WhatsApp")
     ELSE /\ Goto(h, "update")
          /\ UNCHANGED outbox
  /\ UNCHANGED << requests, env, idleVars >>

\* handleDemoApproval, lines 218-244.
ApproveUpdate(h) ==
  /\ handlers[h].route = "approve"
  /\ handlers[h].pc = "update"
  /\ \/ /\ Respond(h, "500 Error updating request status")
        /\ UNCHANGED requests
     \/ /\ requests' = Update(handlers[h].demoRequest, "finished")
        /\ Respond(h, "success")
  /\ UNCHANGED << outbox, env, idleVars >>

\* handleDemoDenial, lines 58-107.
DenyFind(h) ==
  /\ handlers[h].route = "deny"
  /\ FindRequest(h, "update")

\* handleDemoDenial, lines 113-137.
DenyUpdate(h) ==
  /\ handlers[h].route = "deny"
  /\ handlers[h].pc = "update"
  /\ \/ /\ Respond(h, "500 Error updating request status")
        /\ UNCHANGED requests
     \/ /\ requests' = Update(handlers[h].demoRequest, "denied")
        /\ Respond(h, "recorded")
  /\ UNCHANGED << outbox, env, idleVars >>

\* The branch of the webhooks for a pending request: the button first,
\* then the text.
Dispatch(buttonPayload, messageBody) ==
  IF buttonPayload = "demo-accept" THEN "handleApproval"
  ELSE IF buttonPayload = "demo-cancel" THEN "handleDenial"
  ELSE IF IsApprovalMessage(messageBody) THEN "handleApproval"
  ELSE IF IsDenialMessage(messageBody) THEN "handleDenial"
  ELSE "unclear"

\* POST of part_012, lines 489-535 and 608-610: the real forecast buttons
\* go to the delivery handlers; the demo flow is entered for the two demo
\* buttons only; everything else is answered no_pending_request.
WebhookStart(h) ==
  /\ handlers[h].route = "webhook"
  /\ handlers[h].pc = "start"
  /\ IF ~handlers[h].phone THEN Respond(h, "400 No phone number")
     ELSE IF handlers[h].buttonPayload = "forecast-accept"
     THEN \/ Respond(h, "forecast_approved")
          \/ Respond(h, "500 Internal server error")
     ELSE IF handlers[h].buttonPayload \in {"demo-accept", "demo-cancel"}
     THEN Goto(h, "find")
     ELSE Respond(h, "no_pending_request")
  /\ UNCHANGED << requests, outbox, env, idleVars >>

\* POST of part_012, lines 539-606.
WebhookFind(h) ==
  /\ handlers[h].route = "webhook"
  /\ handlers[h].pc = "find"
  /\ \/ Respond(h, "500 Database error")
     \/ /\ PendingRequest = 0
        /\ Respond(h, "no_pending_request")
     \/ /\ PendingRequest # 0
        /\ handlers' = [handlers EXCEPT
                          ![h].demoRequest = PendingRequest,
                          ![h].pc = Dispatch(handlers[h].buttonPayload,
                                             handlers[h].messageBody)]
  /\ UNCHANGED << requests, outbox, env, idleVars >>

\* POST of part_011, lines 212-310: the pending request is looked up for
\* every message; the forecast buttons approve and deny it as well.
Webhook011Find(h) ==
  /\ handlers[h].route = "webhook011"
  /\ handlers[h].pc = "start"
  /\ IF ~handlers[h].phone THEN Respond(h, "400 No phone number")
     ELSE \/ Respond(h, "500 Database error")
          \/ /\ PendingRequest = 0
             /\ Respond(h, "no_pending_request")
          \/ /\ PendingRequest # 0
             /\ handlers' = [handlers EXCEPT
                  ![h].demoRequest = PendingRequest,
                  ![h].pc = IF handlers[h].buttonPayload = "forecast-accept"
                            THEN "handleApproval"
                            ELSE Dispatch(handlers[h].buttonPayload,
                                          handlers[h].messageBody)]
  /\ UNCHANGED << requests, outbox, env, idleVars >>

\* await sendWhatsAppMessage(phoneNumber, text) as the last statement
\* before the response: nothing goes out without Twilio; a create call
\* that rejects reaches the catch of POST.
SendText(h, kind, response) ==
  IF env.twilio
  THEN \/ /\ outbox' = outbox \cup {Sent(h, kind)}
          /\ Respond(h, response)
       \/ /\ UNCHANGED outbox
          /\ Respond(h, "500 Internal server error")
  ELSE /\ UNCHANGED outbox
       /\ Respond(h, response)

\* handleApproval, part_012 lines 159-202: the sales query, the forecast
\* and the message.
HandleApprovalSales(h) ==
  /\ handlers[h].pc = "handleApproval"
  /\ \/ Goto(h, "apology")
     \/ Respond(h, "500 Internal server error")
     \/ Goto(h, "sendForecast")
  /\ UNCHANGED << requests, outbox, env, idleVars >>

\* handleApproval, lines 171-178: no sales data, an apology is sent and
\* the request keeps its status.
HandleApprovalApology(h) ==
  /\ handlers[h].pc = "apology"
  /\ SendText(h, "apology", "approved")
  /\ UNCHANGED << requests, env, idleVars >>

\* handleApproval, lines 204-205.
HandleApprovalSend(h) ==
  /\ handlers[h].pc = "sendForecast"
  /\ IF env.twilio
     THEN \/ /\ outbox' = outbox \cup {Sent(h, "forecast")}
             /\ Goto(h, "finish")
          \/ /\ outbox' \in {outbox, outbox \cup {Sent(h, "parts")}}
             /\ Respond(h, "500 Internal server error")
     ELSE /\ Goto(h, "finish")
          /\ UNCHANGED outbox
  /\ UNCHANGED << requests, env, idleVars >>

\* handleApproval, lines 207-214: the result of the update is not looked
\* at.
HandleApprovalUpdate(h) ==
  /\ handlers[h].pc = "finish"
  /\ requests' \in {requests, Update(handlers[h].demoRequest, "finished")}
  /\ Respond(h, "approved")
  /\ UNCHANGED << outbox, env, idleVars >>

\* handleDenial, part_012 lines 219-223.
HandleDenialUpdate(h) ==
  /\ handlers[h].pc = "handleDenial"
  /\ requests' \in {requests, Update(handlers[h].demoRequest, "denied")}
  /\ Goto(h, "confirm")
  /\ UNCHANGED << outbox, env, idleVars >>

\* handleDenial, lines 225-234.
HandleDenialConfirm(h) ==
  /\ handlers[h].pc = "confirm"
  /\ SendText(h, "confirmation", "denied")
  /\ UNCHANGED << requests, env, idleVars >>

\* POST, lines 598-604: neither a button nor a clear text.
WebhookUnclear(h) ==
  /\ handlers[h].pc = "unclear"
  /\ SendText(h, "unclear", "waiting_for_clear_response")
  /\ UNCHANGED << requests, env, idleVars >>

NextDemo ==
  \/ RequestDemo
  \/ \E h \in HandlerIds :
       \/ Receive(h)
       \/ ApproveFind(h)
       \/ ApproveSales(h)
       \/ ApproveSend(h)
       \/ ApproveUpdate(h)
       \/ DenyFind(h)
       \/ DenyUpdate(h)
       \/ WebhookStart(h)
       \/ WebhookFind(h)
       \/ Webhook011Find(h)
       \/ HandleApprovalSales(h)
       \/ HandleApprovalApology(h)
       \/ HandleApprovalSend(h)
       \/ HandleApprovalUpdate(h)
       \/ HandleDenialUpdate(h)
       \/ HandleDenialConfirm(h)
       \/ WebhookUnclear(h)

SpecDemo == InitDemo /\ [][NextDemo]_vars

\* ------------------------------------------------------------------ upload-csv
\* POST of src/app/api/upload-csv/route.ts for one location, one request
\* after the other.  A string is the sequence of its characters; the
\* server's time zone is UTC.

\* Rows of one CSV file.
MaxRows == 2

\* csvRow.date: a format parseDate knows and the day it names (days since
\* 1970-01-01), or a text no format matches.
CsvDates ==
  [format : {"YYYY-MM-DD", "DD/MM/YYYY"}, day : {1}]
    \cup {[format |-> "invalid", day |-> 0]}

\* csvRow.item
CsvItems == { << "B", "o" >>, << " ", "b", "o" >>, << "S", "o" >> }

CsvRows == [date : CsvDates, item : CsvItems, quantity : {5}]

RECURSIVE TrimStart(_)
TrimStart(str) ==
  IF str # << >> /\ Head(str) = " " THEN TrimStart(Tail(str)) ELSE str

RECURSIVE TrimEnd(_)
TrimEnd(str) ==
  IF str # << >> /\ str[Len(str)] = " "
  THEN TrimEnd(SubSeq(str, 1, Len(str) - 1))
  ELSE str

\* String.prototype.trim
Trim(str) == TrimEnd(TrimStart(str))

\* String.prototype.toLowerCase, for the letters of CsvItems.
ToLowerCase(str) ==
  [i \in 1..Len(str) |->
     IF str[i] = "B" THEN "b" ELSE IF str[i] = "S" THEN "s" ELSE str[i]]

\* parseDate: the timestamp of the day's midnight, NaN standing for the
\* Error it throws.
ParseDate(dateStr) ==
  IF dateStr.format = "invalid" THEN NaN ELSE dateStr.day * MsPerDay

\* new Date(timestamp).toISOString().split("T")[0]: the UTC calendar day.
DateString(timestamp) == timestamp \div MsPerDay

\* `${date}|${item.trim().toLowerCase()}`
LookupKey(timestamp, item) ==
  [date |-> DateString(timestamp), item |-> ToLowerCase(Trim(item))]

\* Lines 50-58: the keys of the rows the location has.
ExistingRecords(existingSalesData) ==
  { LookupKey(existingSalesData[i].timestamp, existingSalesData[i].item) :
      i \in 1..Len(existingSalesData) }

\* Lines 60-96: the loop over csvData; a row whose date does not parse is
\* skipped, a row whose key is in existingRecords is counted, any other
\* row is taken.
RECURSIVE Process(_, _, _, _)
Process(csvData, existingRecords, newRecords, duplicateCount) ==
  IF csvData = << >>
  THEN [newRecords |-> newRecords, duplicateCount |-> duplicateCount]
  ELSE LET csvRow == Head(csvData)
           parsedDate == ParseDate(csvRow.date)
           lookupKey == LookupKey(parsedDate, csvRow.item)
       IN  IF parsedDate = NaN
           THEN Process(Tail(csvData), existingRecords,
                        newRecords, duplicateCount)
           ELSE IF lookupKey \in existingRecords
           THEN Process(Tail(csvData), existingRecords,
                        newRecords, duplicateCount + 1)
           ELSE Process(Tail(csvData), existingRecords,
                        Append(newRecords, [timestamp |-> parsedDate,
                                            item |-> Trim(csvRow.item),
                                            quantity |-> csvRow.quantity]),
                        duplicateCount)

\* The files: one to MaxRows rows.
CsvFiles == UNION { [1..n -> CsvRows] : n \in 1..MaxRows }

InitUpload ==
  /\ sales_data = << >>
  /\ uploadResponse = [status |-> 0]
  /\ ForecastIdle
  /\ IdleSend
  /\ IdleDemo

\* POST, lines 16-128, for a request with all its fields: the select, the
\* loop and the insert; each database call may fail.
Upload ==
  /\ \E csvData \in CsvFiles :
       LET processed == Process(csvData, ExistingRecords(sales_data), << >>, 0)
       IN  \/ /\ uploadResponse' =
                   [status |-> 500, error |-> "Failed to check existing data"]
              /\ UNCHANGED sales_data
           \/ /\ processed.newRecords # << >>
              /\ uploadResponse' =
                   [status |-> 500, error |-> "Failed to save new records"]
              /\ UNCHANGED sales_data
           \/ /\ sales_data' = sales_data \o processed.newRecords
              /\ uploadResponse' =
                   [status |-> 200,
                    newRecords |-> Len(processed.newRecords),
                    duplicates |-> processed.duplicateCount,
                    totalProcessed |-> Len(csvData)]
  /\ UNCHANGED << forecastVars, send, demoVars >>

SpecUpload == InitUpload /\ [][Upload]_vars

\* ------------------------------------------------------------------ properties

\* The items whose prediction is stored; itemData[k] is then the series the
\* estimators got.
Forecasted == DOMAIN predictions

\* The methods array of item k.
MethodsOf(k) == Methods(itemData[k], targetDayOfWeek)

\* C1: non-negativity.  The quantities of a batch being non-negative integers
\* and its dates parsing, every value of the mapping is an integer >= 0, and
\* it is exactly 0 where the weighted sum of the four methods is negative.
C1_NonNegative ==
  pc = "done" =>
    \A k \in Forecasted :
      /\ predictions[k] \in Nat
      /\ WeightedSum(MethodsOf(k)) < 0 => predictions[k] = 0

\* C1 witness: the linear trend drives a weighted sum below -1/2 (it would
\* round to a negative integer) and the stored value is 0.
C1_Witness ==
  /\ pc = "done"
  /\ \E k \in Forecasted :
       /\ MethodsOf(k)[4] < 0
       /\ 2 * WeightedSum(MethodsOf(k)) < -Scale
       /\ predictions[k] = 0

\* C3: single-point history.  For an item with exactly one record, of
\* quantity q, each of the four estimators returns q and the prediction is
\* exactly q, whatever the target weekday.
C3_SinglePoint ==
  pc = "done" =>
    \A k \in Forecasted :
      Len(itemData[k]) = 1 =>
        LET q == itemData[k][1].quantity
        IN  /\ MethodsOf(k) = << q * Scale, q * Scale, q * Scale, q * Scale >>
            /\ predictions[k] = q

\* C3 witness: a returned call with a one-record item of positive quantity
\* whose weekday is not the target's.
C3_Witness ==
  /\ pc = "done"
  /\ \E k \in Forecasted :
       /\ Len(itemData[k]) = 1
       /\ itemData[k][1].quantity > 0
       /\ itemData[k][1].dayOfWeek # targetDayOfWeek
       /\ predictions[k] = itemData[k][1].quantity

\* C4: the key set of the returned mapping is exactly the set of item
\* identifiers of the batch (one entry per item with a record, none for an
\* item without, the empty mapping for the empty batch).
C4_KeySet ==
  pc = "done" =>
    /\ DOMAIN predictions = ItemsOf(historicalData)
    /\ historicalData = << >> => predictions = EmptyObject

\* C4 witness: a returned call whose batch holds both items, one of them in a
\* zero-quantity record only.
C4_Witness ==
  /\ pc = "done"
  /\ Len(historicalData) = 3
  /\ Cardinality(DOMAIN predictions) = 2
  /\ \E k \in Forecasted :
       \A i \in 1..Len(itemData[k]) : itemData[k][i].quantity = 0

\* The batch with its records rearranged by the permutation p of its indices.
Permuted(records, p) == [i \in 1..Len(records) |-> records[p[i]]]

\* C2: order-independence.  Every permutation of the batch, duplicate dates
\* of one item included, gives the same value for every item.
C2_OrderIndependent ==
  pc = "done" =>
    \A p \in Permutations(1..Len(historicalData)) :
      AdvancedForecast(Permuted(historicalData, p), target).predictions
        = predictions

\* C5: the call never raises, and the returned mapping holds a number for
\* every item of the batch, whatever the item identifiers are.
C5_NeverRaises ==
  /\ pc # "threw"
  /\ pc = "done" =>
       \A k \in ItemsOf(historicalData) :
         k \in DOMAIN predictions /\ predictions[k] # NaN

\* All points of the series carry one date.
SameDate(series) ==
  \A i, j \in 1..Len(series) : series[i].date = series[j].date

\* C6: duplicate-date history.  For an item whose records all carry the same
\* date the trend estimator yields a number (no 0 / 0) and the prediction is
\* a finite non-negative integer.
C6_DuplicateDate ==
  pc = "done" =>
    \A k \in Forecasted :
      Len(itemData[k]) >= 2 /\ SameDate(itemData[k]) =>
        /\ LinearTrendForecast(itemData[k]) # NaN
        /\ predictions[k] # NaN
        /\ predictions[k] \in Nat

\* C6 witness: a returned call with an item of two records of one date and
\* different quantities.
C6_Witness ==
  /\ pc = "done"
  /\ \E k \in Forecasted :
       /\ Len(itemData[k]) = 2
       /\ SameDate(itemData[k])
       /\ itemData[k][1].quantity # itemData[k][2].quantity
       /\ predictions[k] > 0

\* C7: determinism.  With an explicit target date the returned mapping is a
\* function of the batch and that date alone: no clock reading enters it.
C7_Determinism ==
  pc = "done" /\ targetDate # NoDate =>
    predictions = AdvancedForecast(historicalData, targetDate).predictions

\* C7 witness: a returned call with an explicit target date for which some
\* clock reading, had it been used, would have given another mapping.
C7_Witness ==
  /\ pc = "done"
  /\ targetDate # NoDate
  /\ \E now \in Clock :
       AdvancedForecast(historicalData, GetTomorrowDate(now)).predictions
         # predictions

\* The records of item k, in batch order.
RecordsOf(records, k) == SelectSeq(records, LAMBDA r : r.item = k)

\* C8: per-item independence.  The value of item k is the value the call
\* returns for the records of k alone: records of other items do not count.
C8_Independence ==
  pc = "done" =>
    \A k \in Forecasted :
      predictions[k]
        = AdvancedForecast(RecordsOf(historicalData, k), target).predictions[k]

\* C8 witness: a returned call with two items, one of several records, whose
\* values differ.
C8_Witness ==
  /\ pc = "done"
  /\ \E k, j \in Forecasted :
       /\ k # j
       /\ Len(itemData[k]) >= 2
       /\ predictions[k] # predictions[j]

\* No point of the series of k has the target's weekday.
NoSameDay(k) ==
  \A i \in 1..Len(itemData[k]) : itemData[k][i].dayOfWeek # targetDayOfWeek

\* The unweighted mean of the quantities of a non-empty series.
Mean(series) ==
  FixDiv(SeqSum([i \in 1..Len(series) |-> series[i].quantity]), Len(series))

\* C9: weekday fallback.  When no point has the target's weekday,
\* dayOfWeekPattern returns the unweighted mean of all quantities, and the
\* call does not fail.
C9_WeekdayFallback ==
  /\ pc # "threw"
  /\ pc = "done" =>
       \A k \in Forecasted :
         NoSameDay(k) =>
           DayOfWeekPattern(itemData[k], targetDayOfWeek) = Mean(itemData[k])

\* C9 witness: an item of several records of different quantities, none on
\* the target's weekday, with a positive mean.
C9_Witness ==
  /\ pc = "done"
  /\ \E k \in Forecasted :
       /\ NoSameDay(k)
       /\ Len(itemData[k]) >= 2
       /\ itemData[k][1].quantity # itemData[k][2].quantity
       /\ DayOfWeekPattern(itemData[k], targetDayOfWeek) = Mean(itemData[k])
       /\ Mean(itemData[k]) > 0

IsScenarioA(records, start) ==
  /\ Len(records) = Len(ScenarioQuantities)
  /\ {records[i] : i \in 1..Len(records)}
       = {ScenarioA(start)[i] : i \in 1..Len(ScenarioQuantities)}

\* C11: scenario A.  For the one item with quantities 10, 12, 11, 13, 12,
\* 14, 13 on seven consecutive days and the 8th day as target, the returned
\* value v satisfies 11 <= v <= 15.
C11_ScenarioA ==
  pc = "done" =>
    \A start \in ScenarioStarts :
      IsScenarioA(historicalData, start)
        /\ target \div MsPerDay = start + 7 =>
          /\ DOMAIN predictions = {"Burger"}
          /\ predictions["Burger"] >= 11
          /\ predictions["Burger"] <= 15

\* C11 witness: the scenario's batch, out of date order, forecast for the
\* 8th day read from the clock; the weekday estimate is the first day's 10.
C11_Witness ==
  /\ pc = "done"
  /\ targetDate = NoDate
  /\ \E start \in ScenarioStarts :
       /\ IsScenarioA(historicalData, start)
       /\ historicalData # ScenarioA(start)
       /\ target \div MsPerDay = start + 7
  /\ DayOfWeekPattern(itemData["Burger"], targetDayOfWeek) = 10 * Scale
  /\ predictions["Burger"] \in 11..15

\* C12: message order.  In every forecast message a delivery handler has
\* built, the item lines stand in non-increasing order of quantity: of two
\* consecutive lines the first quantity is >= the second.
C12_MessageDescending ==
  pc = "sent" =>
    \A i \in 1..(Len(message) - 1) : message[i].qty >= message[i + 1].qty

\* C12 witness: a message of three lines of advancedForecast's mapping whose
\* largest value was not the first entry of the mapping.
C12_Witness ==
  /\ pc = "sent"
  /\ target # NoDate
  /\ Len(message) = 3
  /\ message[1].qty > message[3].qty
  /\ message[1].item # itemKeys[1]

\* C13: day offsets.  In every normalized series the estimators got, the
\* first point has daysSinceStart 1, every point has daysSinceStart >= 1 and
\* equal to the whole-day difference between its date and the first point's
\* date plus 1, and daysSinceStart does not decrease along the series.
C13_DayOffsets ==
  \A k \in Forecasted :
    LET series == itemData[k]
        n == Len(series)
    IN  /\ n > 0 => series[1].daysSinceStart = 1
        /\ \A i \in 1..n :
             /\ series[i].daysSinceStart >= 1
             /\ series[i].daysSinceStart
                  = ((series[i].date - series[1].date) \div MsPerDay) + 1
        /\ \A i \in 1..(n - 1) :
             series[i].daysSinceStart <= series[i + 1].daysSinceStart

\* C13 witness: an item of three records given out of date order, its
\* series carrying the offsets 1, 1, 2.
C13_Witness ==
  \E k \in Forecasted :
    /\ Len(itemData[k]) = 3
    /\ RecordsOf(historicalData, k)[1].date > RecordsOf(historicalData, k)[2].date
    /\ << itemData[k][1].daysSinceStart, itemData[k][2].daysSinceStart,
          itemData[k][3].daysSinceStart >> = << 1, 1, 2 >>

\* C14: every series the four estimators got is sorted ascending by date:
\* date(p) <= date(p') for consecutive points p, p'.
C14_SortedByDate ==
  \A k \in Forecasted :
    \A i \in 1..(Len(itemData[k]) - 1) :
      itemData[k][i].date <= itemData[k][i + 1].date

\* C14 witness: an item whose records came latest first, its series running
\* from the earlier date to the later one.
C14_Witness ==
  \E k \in Forecasted :
    LET own == RecordsOf(historicalData, k)
    IN  /\ Len(own) >= 2
        /\ own[1].date > own[Len(own)].date
        /\ itemData[k][1].date < itemData[k][Len(own)].date

\* The points of the records of item k, in batch order.
PointsOf(records, k) ==
  LET own == RecordsOf(records, k)
  IN  [i \in 1..Len(own) |-> NewPoint(own[i])]

C16_NoEmptySeries ==
  /\ \A k \in DOMAIN itemData : Len(itemData[k]) >= 1
  /\ \A i \in 1..Len(itemKeys) : itemKeys[i] \in DOMAIN itemData

\* C16 witness: a returned call with two one-record items, one of quantity 0
\* and one of positive quantity, each estimated from its one point.
C16_Witness ==
  /\ pc = "done"
  /\ \E k, j \in Forecasted :
       /\ Len(itemData[k]) = 1 /\ Len(itemData[j]) = 1
       /\ itemData[k][1].quantity = 0 /\ predictions[k] = 0
       /\ itemData[j][1].quantity > 0
       /\ predictions[j] = itemData[j][1].quantity
       /\ MethodsOf(j)[1] > 0

RECURSIVE S(_, _)
\* The recursion of the claim over the quantities q, in units of 1/Scale:
\* S_0 = q_0, S_i = 0.3 q_i + 0.7 S_(i-1); position i + 1 holds q_i.
S(q, i) ==
  IF i = 0 THEN q[1] * Scale
  ELSE FixMul(3000, q[i + 1] * Scale) + FixMul(7000, S(q, i - 1))

\* C17: exponentialSmoothing with alpha = 0.3 returns 0 for the empty
\* series, the one quantity for a one-point series, and else the last value
\* of S_0 = q_0, S_i = 0.3 q_i + 0.7 S_(i-1) over the points in series order.
C17_Smoothing ==
  called = "exponentialSmoothing" =>
    LET n == Len(timeSeries)
        q == [i \in 1..n |-> timeSeries[i].quantity]
    IN  /\ n = 0 => returned = 0
        /\ n = 1 => returned = q[1] * Scale
        /\ n >= 2 => returned = S(q, n - 1)

\* C17 witness: three points of different quantities 6, 0, 3, smoothed to
\* 0.3 * 3 + 0.7 * (0.3 * 0 + 0.7 * 6) = 3.84.
C17_Witness ==
  /\ called = "exponentialSmoothing"
  /\ Len(timeSeries) = 3
  /\ << timeSeries[1].quantity, timeSeries[2].quantity,
        timeSeries[3].quantity >> = << 6, 0, 3 >>
  /\ returned = 38400

\* All points of the series carry one daysSinceStart.
SameOffset(series) ==
  \A i, j \in 1..Len(series) :
    series[i].daysSinceStart = series[j].daysSinceStart

\* C18: degenerate cases of linearTrendForecast.  It returns 0 for the empty
\* series, the one quantity for a one-point series and, for two or more
\* points of one daysSinceStart (denominator 0), the mean of the quantities;
\* no division by zero happens: the result is a number.
C18_TrendDegenerate ==
  called = "linearTrendForecast" =>
    LET n == Len(timeSeries)
    IN  /\ returned # NaN
        /\ n = 0 => returned = 0
        /\ n = 1 => returned = timeSeries[1].quantity * Scale
        /\ n >= 2 /\ SameOffset(timeSeries) => returned = Mean(timeSeries)

\* C18 witness: three points of one offset and quantities not all equal; the
\* trend is their positive mean.
C18_Witness ==
  /\ called = "linearTrendForecast"
  /\ Len(timeSeries) = 3
  /\ SameOffset(timeSeries)
  /\ timeSeries[1].quantity # timeSeries[3].quantity
  /\ returned = Mean(timeSeries)
  /\ returned > 0

\* No two points of the series carry one daysSinceStart.
DistinctOffsets(series) ==
  \A i, j \in 1..Len(series) :
    i # j => series[i].daysSinceStart # series[j].daysSinceStart

\* The quantities lie on one line in x = daysSinceStart: every point on the
\* line through the first two.
Collinear(series) ==
  LET dx == series[2].daysSinceStart - series[1].daysSinceStart
      dy == series[2].quantity - series[1].quantity
  IN  \A i \in 1..Len(series) :
        (series[i].quantity - series[1].quantity) * dx
          = (series[i].daysSinceStart - series[1].daysSinceStart) * dy

\* The fixed-point error allowed to a result: 1/1000.
Tolerance == Scale \div 1000

\* C19: linearTrendForecast extrapolates the least-squares line one day past
\* the last observed offset.  For two or more points of distinct offsets
\* whose quantities lie on the line y = a x + c it returns
\* a (x_last + 1) + c = y_last + a, where a = dy / dx of the first two points
\* (compared after multiplying by dx); no target date enters.
C19_TrendExtrapolates ==
  called = "linearTrendForecast" /\ Len(timeSeries) >= 2
    /\ DistinctOffsets(timeSeries) /\ Collinear(timeSeries) =>
      LET dx == timeSeries[2].daysSinceStart - timeSeries[1].daysSinceStart
          dy == timeSeries[2].quantity - timeSeries[1].quantity
          last == timeSeries[Len(timeSeries)]
          deviation == (returned - last.quantity * Scale) * dx - dy * Scale
      IN  /\ deviation <= Tolerance * (IF dx < 0 THEN -dx ELSE dx)
          /\ -deviation <= Tolerance * (IF dx < 0 THEN -dx ELSE dx)

\* C19 witness: the points (1, 6), (2, 3), (3, 0) on y = -3 x + 9; the trend
\* is -3, the line's value at offset 4.
C19_Witness ==
  /\ called = "linearTrendForecast"
  /\ Len(timeSeries) = 3
  /\ DistinctOffsets(timeSeries) /\ Collinear(timeSeries)
  /\ << timeSeries[1].quantity, timeSeries[2].quantity,
        timeSeries[3].quantity >> = << 6, 3, 0 >>
  /\ timeSeries[3].daysSinceStart = 3
  /\ returned + 3 * Scale <= Tolerance
  /\ -(returned + 3 * Scale) <= Tolerance

SameWeekday(a, b) == ((a \div MsPerDay) - (b \div MsPerDay)) % 7 = 0

\* C23: the target date counts only through its day of week.  For any
\* batch, a target date of the same weekday as the one used, whatever its
\* time of day and its week, gives the identical mapping.
C23_WeekdayOnly ==
  pc = "done" =>
    \A date \in WideTargetDates :
      SameWeekday(date, target) =>
        AdvancedForecast(historicalData, date).predictions = predictions

\* C23 witness: a returned call with an explicit target date; another date
\* of the same weekday, at another time of day in another week, gives the
\* same mapping, and a date of another weekday gives another one.
C23_Witness ==
  /\ pc = "done"
  /\ targetDate # NoDate
  /\ \E date \in WideTargetDates :
       /\ SameWeekday(date, target)
       /\ date \div MsPerDay # target \div MsPerDay
       /\ date % MsPerDay # target % MsPerDay
       /\ AdvancedForecast(historicalData, date).predictions = predictions
  /\ \E date \in WideTargetDates :
       AdvancedForecast(historicalData, date).predictions # predictions

\* C24: constant history.  If all records of an item have one quantity q,
\* whatever their number and dates (distinct or duplicated) and whatever the
\* target weekday, the value of the item is exactly q.
C24_ConstantHistory ==
  pc = "done" =>
    \A k \in Forecasted :
      LET q == itemData[k][1].quantity
      IN  (\A i \in 1..Len(itemData[k]) : itemData[k][i].quantity = q) =>
            predictions[k] = q

\* C24 witness: an item of three records of quantity 40, two of them on one
\* date and none on the target's weekday, valued 40.
C24_Witness ==
  /\ pc = "done"
  /\ \E k \in Forecasted :
       /\ Len(itemData[k]) = 3
       /\ \A i \in 1..3 : itemData[k][i].quantity = 40
       /\ itemData[k][1].date = itemData[k][2].date
       /\ itemData[k][2].date # itemData[k][3].date
       /\ NoSameDay(k)
       /\ predictions[k] = 40

RECURSIVE Concatenated(_, _)
\* The chunks of parts[i..], one after the other, are the characters of the
\* message from position `from` up to its end, each once and in order.
Concatenated(parts, from) ==
  IF parts = << >> THEN from = send.message.len
  ELSE /\ Head(parts).chunk.from = from
       /\ Concatenated(Tail(parts), from + Head(parts).chunk.len)

\* What C29 says of a state of the call.
C29_Parts ==
  /\ \A i \in 1..Len(send.parts) :
       /\ send.parts[i].chunk.len > 0
       /\ BodyLength(send.parts[i]) <= MaxLength
  /\ send.pc = "sending" => Concatenated(send.parts, 0)
  /\ send.pc = "returned" /\ send.configured =>
       /\ Concatenated(send.created, 0)
       /\ \A i \in 1..Len(send.created) :
            BodyLength(send.created[i]) <= MaxLength
       /\ send.message.len <= MaxLength =>
            send.created = << [partNumber |-> 0, totalParts |-> 0,
                               chunk |-> send.message] >>

\* C29: message splitting loses nothing and terminates.  For a message
\* longer than 1600 characters the loop ends; the chunks in send order make
\* up the message; every chunk is non-empty; every part sent, header and
\* chunk, has at most 1600 characters; a message of at most 1600 characters
\* goes out as one unmodified part.
C29_SplitLosesNothing ==
  /\ []C29_Parts
  /\ <>(send.pc \in {"returned", "threw"})

\* C29 witness: a message of more than 3200 characters sent in parts, all
\* of them created.
C29_Witness ==
  /\ send.pc = "returned"
  /\ send.message.len > 2 * MaxLength
  /\ Len(send.created) >= 3
  /\ Concatenated(send.created, 0)

\* C30: the headers 'Part k/T' of a split message are consistent: as many
\* parts are sent as the total T announces, and 1 <= k <= T in every part.
C30_HeadersConsistent ==
  send.pc = "returned" /\ send.message.len > MaxLength =>
    \A i \in 1..Len(send.created) :
      /\ Len(send.created) = send.created[i].totalParts
      /\ 1 <= send.created[i].partNumber
      /\ send.created[i].partNumber <= send.created[i].totalParts

\* Handler h has received a text reply: a keyword, no button, from a phone
\* number.
TextReply(h) ==
  /\ handlers[h].route \in {"webhook", "webhook011"}
  /\ handlers[h].phone
  /\ handlers[h].buttonPayload = ""
  /\ \/ IsApprovalMessage(handlers[h].messageBody)
     \/ IsDenialMessage(handlers[h].messageBody)

\* Handler h answers in this step.
Responds(h) == handlers[h].pc # "responded" /\ handlers'[h].pc = "responded"

\* C21: text replies are handled by the WhatsApp webhook: while a pending
\* demo request exists for the sender, a webhook POST with the text "yes"
\* or "no" and no button payload is not answered no_pending_request.
C21_TextRepliesHandled ==
  [][\A h \in HandlerIds :
       TextReply(h) /\ Responds(h) /\ PendingRequest # 0 =>
         handlers'[h].response # "no_pending_request"]_vars

\* C26: a row of demo_whatsapp_request that is 'finished' or 'denied' never
\* changes its status again, whatever the interleaving of approve and deny
\* requests.
C26_FinalStatusKept ==
  [][\A i \in 1..Len(requests) :
       requests[i] \in {"finished", "denied"} => requests'[i] = requests[i]]_vars

\* C27: the forecast of one demo request is sent at most once, and never
\* for a request that is denied: whenever a forecast goes out, its request
\* is not denied and no forecast went out for it before.
C27_ForecastSentOnce ==
  [][\A m \in outbox' \ outbox :
       m.kind = "forecast" =>
         /\ requests[m.request] # "denied"
         /\ ~\E n \in outbox : n.kind = "forecast" /\ n.request = m.request]_vars

\* C28: handleDemoApproval sets 'finished' only after the forecast was sent
\* (or Twilio is not configured); a failed send is answered 500 and leaves
\* the request as it is; every error exit leaves all statuses unchanged.
C28_FinishedAfterSend ==
  [][\A h \in HandlerIds :
       handlers[h].route = "approve" /\ handlers'[h] # handlers[h] =>
         /\ requests' # requests =>
              /\ handlers[h].pc = "update"
              /\ requests' = Update(handlers[h].demoRequest, "finished")
              /\ handlers'[h].response = "success"
              /\ env.twilio => Sent(h, "forecast") \in outbox
         /\ Responds(h) /\ handlers'[h].response # "success" =>
              requests' = requests
         /\ handlers[h].pc = "send" /\ Sent(h, "forecast") \notin outbox' =>
              \/ ~env.twilio
              \/ /\ handlers'[h].response = "500 Failed to send WhatsApp"
                 /\ requests' = requests]_vars

\* C28 witness: one approval sent the forecast and finished its request,
\* another failed to send and its request is still pending.
C28_Witness ==
  \E g, h \in HandlerIds :
    /\ handlers[g].route = "approve"
    /\ handlers[g].response = "success"
    /\ requests[handlers[g].demoRequest] = "finished"
    /\ Sent(g, "forecast") \in outbox
    /\ handlers[h].route = "approve"
    /\ handlers[h].response = "500 Failed to send WhatsApp"
    /\ requests[handlers[h].demoRequest] = "pending"

\* C22: CSV upload filters out duplicates: after any sequence of uploads,
\* one after the other, into a table without duplicates, no two rows of the
\* location share the key (calendar date, trimmed lower-cased item).
C22_NoDuplicateKeys ==
  \A i, j \in 1..Len(sales_data) :
    i # j => LookupKey(sales_data[i].timestamp, sales_data[i].item)
               # LookupKey(sales_data[j].timestamp, sales_data[j].item)

\* The quantities of the series an estimator was called on.
QuantitiesOf(series) == { series[i].quantity : i \in 1..Len(series) }

\* lo and hi are the least and the greatest of the quantities.
Extremes(series, lo, hi) ==
  /\ lo \in QuantitiesOf(series)
  /\ hi \in QuantitiesOf(series)
  /\ \A q \in QuantitiesOf(series) : lo <= q /\ q <= hi

\* The three estimators that average.
Averaging ==
  /\ called \in {"weightedMovingAverage", "exponentialSmoothing",
                 "dayOfWeekPattern"}
  /\ timeSeries # << >>

\* 2^50 - 1 and 2^50 + 1
BelowOne == SubNat(ShiftLeft(<< 1 >>, 50), << 1 >>)
AboveOne == AddNat(ShiftLeft(<< 1 >>, 50), << >>, 1)

====
